---- MODULE Spec2Model ----
(***************************************************************************)
(* The grid layout engine of grus-gui-lib (src/src/grid.rs) driven through *)
(* WidgetPlacer::allocate_space (src/src/lib.rs), one grid identifier,     *)
(* frame after frame.                                                      *)
(*                                                                         *)
(* f32 values are integers, with two sentinels: Inf (f32::INFINITY) and    *)
(* NaN.  The arithmetic helpers FAdd, FSub, FMax, FMin follow the f32      *)
(* rules for the sentinels (max and min ignore a NaN operand, + and -      *)
(* propagate it).  Rounding of f32 is not modelled.  Heights and the       *)
(* vertical spacing are even numbers wherever the code halves them.        *)
(*                                                                         *)
(* The date picker (src/src/datepicker.rs) is modelled next to it: its     *)
(* builder calls, and the clicks and drags in its popup.  A NaiveDateTime  *)
(* is a day number with the second of the day and the nanosecond.          *)
(***************************************************************************)
EXTENDS Integers, Sequences, FiniteSets, TLC

\* ------------------------------------------------------------------ bounds

\* Cells the caller puts into one row at most.
MaxCols == 2
\* Rows (end_row calls) of one traversal at most.
MaxRows == 2
\* Frames a host that counts them tells apart: the last one stands for
\* every later frame.
MaxFrames == 3

\* ------------------------------------------------------------- f32 values

\* f32::INFINITY, the default of max_cell_size.
Inf == 1000000
\* The f32 NaN that any_nan() looks for.
NaN == 0 - Inf - 1

FAdd(a, b) ==
    IF a = NaN \/ b = NaN THEN NaN
    ELSE IF a = Inf \/ b = Inf THEN Inf
    ELSE a + b

\* Never used with b = Inf: the subtrahend is always a cursor coordinate.
FSub(a, b) ==
    IF a = NaN \/ b = NaN THEN NaN
    ELSE IF a = Inf THEN Inf
    ELSE a - b

\* f32::max: a NaN operand is ignored.
FMax(a, b) ==
    IF a = NaN THEN b
    ELSE IF b = NaN THEN a
    ELSE IF a >= b THEN a ELSE b

\* f32::min: a NaN operand is ignored.
FMin(a, b) ==
    IF a = NaN THEN b
    ELSE IF b = NaN THEN a
    ELSE IF a <= b THEN a ELSE b

is_finite(a) == a # Inf /\ a # NaN

vec2(x, y) == [x |-> x, y |-> y]

\* Vec2::max, component-wise.
vec2_max(a, b) == vec2(FMax(a.x, b.x), FMax(a.y, b.y))

\* Rect::from_min_size: a rectangle is its min and max corners.
from_min_size(min, size) ==
    [min |-> min, max |-> vec2(FAdd(min.x, size.x), FAdd(min.y, size.y))]

width(rect) == FSub(rect.max.x, rect.min.x)

height(rect) == FSub(rect.max.y, rect.min.y)

any_nan(rect) ==
    rect.min.x = NaN \/ rect.min.y = NaN \/ rect.max.x = NaN \/ rect.max.y = NaN

\* Option<T>: the empty sequence is None, <<v>> is Some(v).
None == << >>

Some(v) == << v >>

unwrap_or(opt, default) == IF opt = None THEN default ELSE opt[1]

\* ------------------------------------------------------------------ State

\* State::default(): two empty vectors.
DefaultState == [col_widths |-> << >>, row_heights |-> << >>]

\* A bug: the new slots hold -1.
resize_unset(seq, n) == [i \in 1..n |-> IF i <= Len(seq) THEN seq[i] ELSE -1]

\* Vec::resize(n, 0.0) with n >= len: the new slots hold 0.
resize(seq, n) == [i \in 1..n |-> IF i <= Len(seq) THEN seq[i] ELSE 0]

AtLeastLen(seq, n) == IF Len(seq) >= n THEN Len(seq) ELSE n

\* A bug: the slot takes the last width, not the largest.
set_min_col_width_overwrite(st, c, w) ==
    LET v == resize(st.col_widths, AtLeastLen(st.col_widths, c + 1))
    IN  [st EXCEPT !.col_widths = [v EXCEPT ![c + 1] = w]]

\* A slot keeps the larger of its value and width.
set_min_col_width(st, c, w) ==
    LET v == resize(st.col_widths, AtLeastLen(st.col_widths, c + 1))
    IN  [st EXCEPT !.col_widths = [v EXCEPT ![c + 1] = FMax(v[c + 1], w)]]

\* A bug: the slot takes the last height, not the largest.
set_min_row_height_overwrite(st, r, h) ==
    LET v == resize(st.row_heights, AtLeastLen(st.row_heights, r + 1))
    IN  [st EXCEPT !.row_heights = [v EXCEPT ![r + 1] = h]]

set_min_row_height(st, r, h) ==
    LET v == resize(st.row_heights, AtLeastLen(st.row_heights, r + 1))
    IN  [st EXCEPT !.row_heights = [v EXCEPT ![r + 1] = FMax(v[r + 1], h)]]

col_width(st, c) ==
    IF c < Len(st.col_widths) THEN Some(st.col_widths[c + 1]) ELSE None

row_height(st, r) ==
    IF r < Len(st.row_heights) THEN Some(st.row_heights[r + 1]) ELSE None

RECURSIVE SeqSum(_)
SeqSum(seq) == IF seq = << >> THEN 0 ELSE FAdd(Head(seq), SeqSum(Tail(seq)))

\* A bug: a gap is counted after every column, the last one too.
full_width_trailing_gap(st, x_spacing) ==
    SeqSum(st.col_widths) + AtLeastLen(st.col_widths, 1) * x_spacing

full_width(st, x_spacing) ==
    SeqSum(st.col_widths) + (AtLeastLen(st.col_widths, 1) - 1) * x_spacing

\* -------------------------------------------------------------- variables

VARIABLES
    opts,            \* the Grid builder's options, fixed for the identifier
    host,            \* what the host and the caller supply, fixed for a run
    store,           \* the context's temp data for the identifier: Option<State>
    phase,           \* "idle", "open", "closed" or "panicked"
    is_first_frame,
    prev_state,
    curr_state,
    col,
    row,
    cursor,          \* region.cursor.min
    last,            \* what the last operation returned, painted or requested
    meas,            \* this frame's largest reported size per column and row
    frame_no,        \* frames opened so far, where the host counts them
    picker,          \* the DatePicker being built or shown: Option<DatePicker>
    date,            \* the NaiveDateTime the picker edits: Option<NaiveDateTime>
    popup,           \* the popup the context's memory holds open: Option<Id>
    calendar         \* how far show_calendar_grid has got, None outside it

vars ==
    << opts, host, store, phase, is_first_frame, prev_state, curr_state,
       col, row, cursor, last, meas, frame_no, picker, date, popup,
       calendar >>

\* What the grid owns, but for the record of the last operation.
grid_vars ==
    << opts, host, store, phase, is_first_frame, prev_state, curr_state,
       col, row, cursor, meas, frame_no >>

\* What the date picker owns or toggles.
picker_vars == << picker, date, popup, calendar >>

\* The fields GridLayout gets from the Grid builder.
num_columns == opts.num_columns

spacing == opts.spacing

min_cell_size == opts.min_cell_size

max_cell_size == opts.max_cell_size

striped == opts.striped

\* The rectangle the grid was opened in; the region's max_rect.
initial_available == host.initial_available

\* ------------------------------------------------------------- GridLayout

prev_col_width(c) == unwrap_or(col_width(prev_state, c), min_cell_size.x)

prev_row_height(r) == unwrap_or(row_height(prev_state, r), min_cell_size.y)

wrap_text == is_finite(max_cell_size.x)

\* Option::or_else.
or_else(opt, other) == IF opt = None THEN other ELSE opt

\* A bug: a width accumulated this frame goes before the memory.
available_width_curr_first ==
    LET is_last_column == Some(col + 1) = num_columns
    IN  IF is_last_column
        THEN IF is_first_frame
             THEN unwrap_or(col_width(curr_state, col), min_cell_size.x)
             ELSE FMin(FSub(initial_available.max.x, cursor.x), max_cell_size.x)
        ELSE IF is_finite(max_cell_size.x)
             THEN max_cell_size.x
             ELSE unwrap_or(or_else(col_width(curr_state, col),
                                    col_width(prev_state, col)),
                            min_cell_size.x)

\* A bug: the last column takes the remaining space on the first frame too.
available_width_always_fill ==
    LET is_last_column == Some(col + 1) = num_columns
    IN  IF is_last_column
        THEN FMin(FSub(initial_available.max.x, cursor.x), max_cell_size.x)
        ELSE IF is_finite(max_cell_size.x)
             THEN max_cell_size.x
             ELSE unwrap_or(or_else(col_width(prev_state, col),
                                    col_width(curr_state, col)),
                            min_cell_size.x)

\* A bug: the memory goes before a finite max_cell_size.x.
available_width_memory_first ==
    LET is_last_column == Some(col + 1) = num_columns
    IN  IF is_last_column
        THEN IF is_first_frame
             THEN unwrap_or(col_width(curr_state, col), min_cell_size.x)
             ELSE FMin(FSub(initial_available.max.x, cursor.x), max_cell_size.x)
        ELSE unwrap_or(or_else(col_width(prev_state, col),
                               col_width(curr_state, col)),
                       IF is_finite(max_cell_size.x)
                       THEN max_cell_size.x
                       ELSE min_cell_size.x)

\* The width available_rect computes for the cell at the cursor, before it
\* is raised to the width accumulated this frame.
available_width ==
    LET is_last_column == Some(col + 1) = num_columns
    IN  IF is_last_column
        THEN IF is_first_frame
             THEN unwrap_or(col_width(curr_state, col), min_cell_size.x)
             ELSE FMin(FSub(initial_available.max.x, cursor.x), max_cell_size.x)
        ELSE IF is_finite(max_cell_size.x)
             THEN max_cell_size.x
             ELSE unwrap_or(or_else(col_width(prev_state, col),
                                    col_width(curr_state, col)),
                            min_cell_size.x)

\* A bug: the height offered is not raised to min_cell_size.y.
available_rect_no_min_height ==
    LET w == FMax(available_width, unwrap_or(col_width(curr_state, col), 0))
        available_min == vec2(FMax(initial_available.min.x, cursor.x),
                              FMax(initial_available.min.y, cursor.y))
        h == FMin(FSub(initial_available.max.y, available_min.y), max_cell_size.y)
    IN  from_min_size(available_min, vec2(w, h))

\* A bug: the width offered is not raised to the accumulated width.
available_rect_no_floor ==
    LET w == available_width
        available_min == vec2(FMax(initial_available.min.x, cursor.x),
                              FMax(initial_available.min.y, cursor.y))
        h == FMin(FMax(FSub(initial_available.max.y, available_min.y),
                       min_cell_size.y),
                  max_cell_size.y)
    IN  from_min_size(available_min, vec2(w, h))

\* The rectangle a cell may use, from the cursor of the region.  The
\* region's max_rect is the rectangle the grid was opened in and its cursor
\* is unbounded to the right and downwards.
available_rect ==
    LET w == FMax(available_width, unwrap_or(col_width(curr_state, col), 0))
        available_min == vec2(FMax(initial_available.min.x, cursor.x),
                              FMax(initial_available.min.y, cursor.y))
        h == FMin(FMax(FSub(initial_available.max.y, available_min.y),
                       min_cell_size.y),
                  max_cell_size.y)
    IN  from_min_size(available_min, vec2(w, h))

\* A bug: the cell's rectangle forgets the previous frame.
next_cell_child_only(cursor_min, child_size) ==
    from_min_size(cursor_min, child_size)

\* The rectangle the content of the cell at the cursor is placed into.
next_cell(cursor_min, child_size) ==
    LET w == unwrap_or(col_width(prev_state, col), 0)
        h == prev_row_height(row)
    IN  from_min_size(cursor_min, vec2_max(child_size, vec2(w, h)))

\* Align2::LEFT_CENTER.align_size_within_rect(size, frame).
align_size_within_rect(size, frame) ==
    LET top == FAdd(frame.min.y, (height(frame) - size.y) \div 2)
    IN  [min |-> vec2(frame.min.x, top),
         max |-> vec2(FAdd(frame.min.x, size.x), FAdd(top, size.y))]

justify_and_align(frame, size) == align_size_within_rect(size, frame)

\* A bug: the cursor moves by the width just measured and never backwards.
advance_clamped(widget_rect) ==
    [curr_state |->
        set_min_row_height(
            set_min_col_width(curr_state, col,
                              FMax(width(widget_rect), min_cell_size.x)),
            row, FMax(height(widget_rect), min_cell_size.y)),
     cursor |->
        [cursor EXCEPT !.x = FAdd(@, FMax(FAdd(width(widget_rect), spacing.x), 0))],
     col |-> col + 1]

\* advance: the accumulator, the cursor and the column after the cell whose
\* content took widget_rect.  (The debug outlines it may paint change
\* nothing.)
advance(widget_rect) ==
    [curr_state |->
        set_min_row_height(
            set_min_col_width(curr_state, col,
                              FMax(width(widget_rect), min_cell_size.x)),
            row, FMax(height(widget_rect), min_cell_size.y)),
     cursor |->
        [cursor EXCEPT !.x = FAdd(@, FAdd(prev_col_width(col), spacing.x))],
     col |-> col + 1]

\* A bug: the stripe goes behind the even rows.
stripe_of_even(new_row, new_cursor) ==
    IF striped /\ new_row % 2 = 0 /\ row_height(prev_state, new_row) # None
    THEN LET size == vec2(full_width(prev_state, spacing.x),
                          row_height(prev_state, new_row)[1])
             rect == from_min_size(new_cursor, size)
         IN  Some([row |-> new_row,
                   rect |-> [min |-> vec2(rect.min.x - 2,
                                          rect.min.y - spacing.y \div 2),
                             max |-> vec2(rect.max.x + 2,
                                          rect.max.y + spacing.y \div 2)]])
    ELSE None

\* The stripe end_row paints behind the row new_row at new_cursor, if any.
\* spacing.y is even, so that half of it is a whole number.
stripe_of(new_row, new_cursor) ==
    IF striped /\ new_row % 2 = 1 /\ row_height(prev_state, new_row) # None
    THEN LET size == vec2(full_width(prev_state, spacing.x),
                          row_height(prev_state, new_row)[1])
             rect == from_min_size(new_cursor, size)
         IN  Some([row |-> new_row,
                   rect |-> [min |-> vec2(rect.min.x - 2,
                                          rect.min.y - spacing.y \div 2),
                             max |-> vec2(rect.max.x + 2,
                                          rect.max.y + spacing.y \div 2)]])
    ELSE None

\* A bug: the next row starts below the previous frame's height of the row.
end_row_prev_height ==
    LET new_cursor ==
            vec2(initial_available.min.x,
                 FAdd(FAdd(cursor.y, spacing.y), prev_row_height(row)))
    IN  [cursor |-> new_cursor,
         col |-> 0,
         row |-> row + 1,
         stripe |-> stripe_of(row + 1, new_cursor)]

\* end_row: the cursor, the position and the stripe painted.
end_row ==
    LET new_cursor ==
            vec2(initial_available.min.x,
                 FAdd(FAdd(cursor.y, spacing.y),
                      unwrap_or(row_height(curr_state, row), min_cell_size.y)))
    IN  [cursor |-> new_cursor,
         col |-> 0,
         row |-> row + 1,
         stripe |-> stripe_of(row + 1, new_cursor)]

\* A bug: save stores and asks for a repaint without comparing.
save_always == [store |-> Some(curr_state), wrote |-> TRUE, repaint |-> TRUE]

\* A bug: save stores the state it loaded, not the one it accumulated.
save_stale ==
    IF curr_state # prev_state
    THEN [store |-> Some(prev_state), wrote |-> TRUE, repaint |-> TRUE]
    ELSE [store |-> store, wrote |-> FALSE, repaint |-> FALSE]

\* save: the stored value afterwards and whether a repaint was requested.
save ==
    IF curr_state # prev_state
    THEN [store |-> Some(curr_state), wrote |-> TRUE, repaint |-> TRUE]
    ELSE [store |-> store, wrote |-> FALSE, repaint |-> FALSE]

\* ------------------------------------------------------ hosts and options

\* The options of Grid::new(..) after its builder calls.
Grid(nc, st, minc, max_col_width, sp, sr) ==
    [num_columns |-> nc, striped |-> st, min_cell_size |-> minc,
     max_cell_size |-> vec2(max_col_width, Inf), spacing |-> sp,
     start_row |-> sr]

\* A host: the rectangle the grid is opened in, whether the build checks
\* egui_assert!, the sizes the cells' contents may report, how far the
\* caller walks, and the content when it is the same every frame.
Host(right, asserts, sizes, cols, rows, content) ==
    [initial_available |-> [min |-> vec2(0, 0), max |-> vec2(right, 40)],
     extra_asserts |-> asserts, sizes |-> sizes,
     max_cols |-> cols, max_rows |-> rows, content |-> content]

\* A wide, low content and a narrow, high one.
Sizes == {vec2(60, 20), vec2(40, 30)}

MainOpts ==
    {Grid(nc, FALSE, minc, mx, vec2(4, 2), 0) :
        nc \in {None, Some(2)},
        minc \in {vec2(0, 0), vec2(50, 24)},
        mx \in {Inf, 70}}

MainHosts == {Host(300, FALSE, Sizes, MaxCols, MaxRows, None)}

\* ---------------------------------------------------------------- actions

\* The ghost record of measurements: no cell measured yet.
NoMeas == [w |-> << >>, h |-> << >>]

\* A slot of meas: -1 where no cell was measured.
Measured(seq, i, v) ==
    LET s == [k \in 1..AtLeastLen(seq, i) |-> IF k <= Len(seq) THEN seq[k] ELSE -1]
    IN  [s EXCEPT ![i] = IF @ >= v THEN @ ELSE v]

\* The grid before its first frame.
InitGrid(os, hs) ==
    /\ opts \in os
    /\ host \in hs
    /\ store = None
    /\ phase = "idle"
    /\ is_first_frame = TRUE
    /\ prev_state = DefaultState
    /\ curr_state = DefaultState
    /\ col = 0
    /\ row = 0
    /\ cursor = vec2(0, 0)
    /\ last = [op |-> "none"]
    /\ meas = NoMeas
    /\ frame_no = 0

\* A run of the grid alone: no date picker is made.
InitWith(os, hs) ==
    /\ InitGrid(os, hs)
    /\ picker = None
    /\ date = None
    /\ popup = None
    /\ calendar = None

\* A bug: nothing is ever found in the store.
load_nothing == None

\* State::load: the value stored for the identifier, if any.
load == store

\* Opening the grid: the memory is loaded and a GridLayout is made for this
\* frame, with an empty accumulator, at column 0 of row start_row, the
\* cursor at the corner of the rectangle it is opened in.
OpenGrid ==
    /\ phase \in {"idle", "closed"}
    /\ phase' = "open"
    /\ is_first_frame' = (load = None)
    /\ prev_state' = unwrap_or(load, DefaultState)
    /\ curr_state' = DefaultState
    /\ col' = 0
    /\ row' = opts.start_row
    /\ cursor' = initial_available.min
    /\ last' = [op |-> "open"]
    /\ meas' = NoMeas
    /\ UNCHANGED << opts, host, store, picker_vars >>

Open == OpenGrid /\ UNCHANGED frame_no

\* WidgetPlacer::allocate_space for a content of desired_size: the cell's
\* rectangle from next_cell, the assertion on it, the content aligned in
\* it, and advance.
AllocateSpace(desired_size) ==
    /\ phase = "open"
    /\ col < host.max_cols
    /\ row - opts.start_row < host.max_rows
    /\ LET frame_rect == next_cell(cursor, desired_size)
           widget_rect == justify_and_align(frame_rect, desired_size)
           after == advance(widget_rect)
       IN  IF host.extra_asserts /\ any_nan(frame_rect)
           THEN /\ phase' = "panicked"
                /\ last' = [op |-> "panic"]
                /\ UNCHANGED << curr_state, cursor, col, meas >>
           ELSE /\ curr_state' = after.curr_state
                /\ cursor' = after.cursor
                /\ col' = after.col
                /\ last' = [op |-> "allocate_space",
                            desired_size |-> desired_size,
                            frame_rect |-> frame_rect,
                            widget_rect |-> widget_rect]
                /\ meas' = [w |-> Measured(meas.w, col + 1, desired_size.x),
                            h |-> Measured(meas.h, row + 1, desired_size.y)]
                /\ UNCHANGED phase
    /\ UNCHANGED << opts, host, store, is_first_frame, prev_state, row, frame_no,
                    picker_vars >>

\* The caller ends the row.
EndRow ==
    /\ phase = "open"
    /\ row - opts.start_row < host.max_rows
    /\ LET after == end_row
       IN  /\ cursor' = after.cursor
           /\ col' = after.col
           /\ row' = after.row
           /\ last' = [op |-> "end_row", stripe |-> after.stripe]
    /\ UNCHANGED << opts, host, store, phase, is_first_frame, prev_state,
                    curr_state, meas, frame_no, picker_vars >>

\* The grid is closed: save.
Close ==
    /\ phase = "open"
    /\ LET after == save
       IN  /\ store' = after.store
           /\ last' = [op |-> "close", wrote |-> after.wrote,
                       repaint |-> after.repaint]
    /\ phase' = "closed"
    /\ UNCHANGED << opts, host, is_first_frame, prev_state, curr_state,
                    col, row, cursor, meas, frame_no, picker_vars >>

Init == InitWith(MainOpts, MainHosts)

Next ==
    \/ Open
    \/ \E s \in host.sizes : AllocateSpace(s)
    \/ EndRow
    \/ Close

Spec == Init /\ [][Next]_vars

\* ------------------------------------------------ striped grids, any start

StripeOpts ==
    {Grid(None, st, vec2(0, 0), Inf, vec2(4, 2), sr) :
        st \in BOOLEAN, sr \in {0, 5}}

StripeHosts == {Host(300, FALSE, Sizes, MaxCols - 1, MaxRows + 1, None)}

InitStripe == InitWith(StripeOpts, StripeHosts)

SpecStripe == InitStripe /\ [][Next]_vars

\* ------------------------------------- three columns in a width of 300

FillSizes == {vec2(50, 20), vec2(250, 20)}

FillOpts == {Grid(Some(3), FALSE, vec2(0, 0), mx, vec2(4, 2), 0) : mx \in {Inf, 100}}

FillHosts == {Host(300, FALSE, FillSizes, MaxCols + 1, MaxRows, None)}

InitFill == InitWith(FillOpts, FillHosts)

SpecFill == InitFill /\ [][Next]_vars

\* ------------------------------------------- the same content every frame

Contents == [1..MaxRows -> [1..MaxCols -> Sizes]]

FixedOpts ==
    {Grid(Some(MaxCols), FALSE, minc, Inf, vec2(4, 2), sr) :
        minc \in {vec2(0, 0), vec2(50, 24)}, sr \in {0, 5}}

FixedHosts == {Host(300, FALSE, Sizes, MaxCols, MaxRows, Some(f)) : f \in Contents}

InitFixed == InitWith(FixedOpts, FixedHosts)

\* The size the content of the cell at (r, c) reports, every frame.
content(r, c) == host.content[1][r - opts.start_row + 1][c + 1]

OpenCounted ==
    /\ OpenGrid
    /\ frame_no' = IF frame_no < MaxFrames THEN frame_no + 1 ELSE frame_no

PlaceContent == AllocateSpace(content(row, col))

EndFullRow == col = host.max_cols /\ EndRow

CloseFull == col = 0 /\ row - opts.start_row = host.max_rows /\ Close

NextFixed ==
    \/ OpenCounted
    \/ PlaceContent
    \/ EndFullRow
    \/ CloseFull

SpecFixed == InitFixed /\ [][NextFixed]_vars

\* ------------------------------------------------------ malformed spacing

GeomOpts ==
    {Grid(None, FALSE, vec2(50, 24), Inf, vec2(sx, 2), 0) : sx \in {-70, NaN}}

GeomHosts ==
    {Host(300, asserts, Sizes, MaxCols, MaxRows, None) : asserts \in BOOLEAN}

InitGeom == InitWith(GeomOpts, GeomHosts)

SpecGeom == InitGeom /\ [][Next]_vars

\* ------------------------------------- negative minimums, empty contents

\* An empty content and a high one.
SignedSizes == {vec2(0, 0), vec2(40, 30)}

SignedOpts ==
    {Grid(None, FALSE, minc, Inf, vec2(4, 2), sr) :
        minc \in {vec2(-20, -8), vec2(50, 24)}, sr \in {0, 3}}

SignedHosts == {Host(300, FALSE, SignedSizes, MaxCols, MaxRows, None)}

InitSigned == InitWith(SignedOpts, SignedHosts)

SpecSigned == InitSigned /\ [][Next]_vars

\* ------------------------------------------------ striped, several columns

WideStripeOpts ==
    {Grid(None, st, vec2(0, 0), Inf, vec2(4, 2), 0) : st \in BOOLEAN}

InitWideStripe == InitWith(WideStripeOpts, MainHosts)

SpecWideStripe == InitWideStripe /\ [][Next]_vars

\* --------------------------------------------------- abandoned traversals

AbandonOpts == {Grid(None, FALSE, vec2(50, 24), Inf, vec2(4, 2), 0)}

InitAbandon == InitWith(AbandonOpts, MainHosts)

\* The host drops the GridLayout of this frame without closing the grid.
Abandon ==
    /\ phase = "open"
    /\ phase' = "idle"
    /\ last' = [op |-> "abandon"]
    /\ UNCHANGED << opts, host, store, is_first_frame, prev_state, curr_state,
                    col, row, cursor, meas, frame_no, picker_vars >>

NextAbandon ==
    \/ Next
    \/ Abandon

SpecAbandon == InitAbandon /\ [][NextAbandon]_vars

\* ------------------------------------------------- chrono dates and times

\* chrono::NaiveDateTime: the day (counted from 1970-01-01), the second of
\* the day and the nanosecond of the second.
NaiveDateTime(days, secs, frac) == [days |-> days, secs |-> secs, frac |-> frac]

\* chrono::Duration: whole seconds and the nanoseconds on top of them.
Duration_days(n) == [secs |-> n * 86400, nanos |-> 0]

Duration_hours(n) == [secs |-> n * 3600, nanos |-> 0]

Duration_minutes(n) == [secs |-> n * 60, nanos |-> 0]

Duration_nanoseconds(n) ==
    [secs |-> n \div 1000000000, nanos |-> n % 1000000000]

\* Duration + Duration.
DurationSum(a, b) ==
    [secs |-> a.secs + b.secs + (a.nanos + b.nanos) \div 1000000000,
     nanos |-> (a.nanos + b.nanos) % 1000000000]

\* NaiveDateTime + Duration.
AddDuration(dt, d) ==
    LET f == dt.frac + d.nanos
        s == dt.secs + d.secs + f \div 1000000000
    IN  NaiveDateTime(dt.days + s \div 86400, s % 86400, f % 1000000000)

\* NaiveDateTime - Duration.
SubDuration(dt, d) ==
    AddDuration(dt, [secs |-> 0 - d.secs - (IF d.nanos > 0 THEN 1 ELSE 0),
                     nanos |-> (1000000000 - d.nanos) % 1000000000])

\* The order of NaiveDateTime.
Before(a, b) ==
    \/ a.days < b.days
    \/ a.days = b.days /\ a.secs < b.secs
    \/ a.days = b.days /\ a.secs = b.secs /\ a.frac < b.frac

NotAfter(a, b) == a = b \/ Before(a, b)

hour(dt) == dt.secs \div 3600

minute(dt) == (dt.secs \div 60) % 60

\* dt.date().and_hms(0, 0, 0).
day_start(dt) == NaiveDateTime(dt.days, 0, 0)

\* NaiveDate::from_ymd(y, m, d) as a day number (proleptic Gregorian).
from_ymd(y, m, d) ==
    LET yy == IF m <= 2 THEN y - 1 ELSE y
        era == yy \div 400
        yoe == yy - era * 400
        mp == IF m > 2 THEN m - 3 ELSE m + 9
        doy == (153 * mp + 2) \div 5 + d - 1
        doe == yoe * 365 + yoe \div 4 - yoe \div 100 + doy
    IN  era * 146097 + doe - 719468

\* The year, month and day of a day number.
civil(days) ==
    LET z == days + 719468
        era == z \div 146097
        doe == z - era * 146097
        yoe == (doe - doe \div 1460 + doe \div 36524 - doe \div 146096) \div 365
        doy == doe - (365 * yoe + yoe \div 4 - yoe \div 100)
        mp == (5 * doy + 2) \div 153
        d == doy - (153 * mp + 2) \div 5 + 1
        m == IF mp < 10 THEN mp + 3 ELSE mp - 9
    IN  [year |-> yoe + era * 400 + (IF m <= 2 THEN 1 ELSE 0), month |-> m, day |-> d]

year(dt) == civil(dt.days).year

month(dt) == civil(dt.days).month

day(dt) == civil(dt.days).day

\* dt.with_day(1): the same time on the first day of the month.
with_day_1(dt) == [dt EXCEPT !.days = from_ymd(year(dt), month(dt), 1)]

\* Weekday::num_days_from_monday: 1970-01-01 was a Thursday.
num_days_from_monday(dt) == (dt.days + 3) % 7

num_days_from_sunday(dt) == (dt.days + 4) % 7

get_days_from_month(y, m) ==
    from_ymd(IF m = 12 THEN y + 1 ELSE y, IF m = 12 THEN 1 ELSE m + 1, 1)
        - from_ymd(y, m, 1)

\* core::ops::Bound and a RangeBounds<NaiveDateTime>.
Included(dt) == [kind |-> "Included", dt |-> dt]

Excluded(dt) == [kind |-> "Excluded", dt |-> dt]

Unbounded == [kind |-> "Unbounded"]

Range(start_bound, end_bound) == [start_bound |-> start_bound, end_bound |-> end_bound]

\* RangeBounds::contains.
contains(range, dt) ==
    /\ CASE range.start_bound.kind = "Included" -> NotAfter(range.start_bound.dt, dt)
         [] range.start_bound.kind = "Excluded" -> Before(range.start_bound.dt, dt)
         [] OTHER -> TRUE
    /\ CASE range.end_bound.kind = "Included" -> NotAfter(dt, range.end_bound.dt)
         [] range.end_bound.kind = "Excluded" -> Before(dt, range.end_bound.dt)
         [] OTHER -> TRUE

\* ------------------------------------------------------------- DatePicker

\* DatePicker::new.  The identifier, the format string, the weekend colour
\* and function and the offset of the popup decide nothing here and are
\* left out.
DatePicker_new ==
    [sunday_first |-> FALSE, movable |-> FALSE, highlight_weekend |-> TRUE,
     allowed_range |-> None, placement |-> None]

sunday_first(p, flag) == [p EXCEPT !.sunday_first = flag]

movable(p, flag) == [p EXCEPT !.movable = flag, !.placement = None]

highlight_weekend(p, highlight) == [p EXCEPT !.highlight_weekend = highlight]

restrict_range(p, allowed_range) == [p EXCEPT !.allowed_range = Some(allowed_range)]

\* A bug: a placed picker stays movable.
placement_keeps_movable(p, align) == [p EXCEPT !.placement = Some(align)]

placement(p, align) == [p EXCEPT !.placement = Some(align), !.movable = FALSE]

get_start_offset_of_calendar(p, first_day) ==
    IF p.sunday_first
    THEN num_days_from_sunday(first_day)
    ELSE num_days_from_monday(first_day)

\* A bug: the end offset is counted from Monday whatever sunday_first is.
get_end_offset_of_calendar_monday(p, first_day) ==
    (7 - num_days_from_monday(first_day)) % 7

get_end_offset_of_calendar(p, first_day) ==
    IF p.sunday_first
    THEN (7 - num_days_from_sunday(first_day)) % 7
    ELSE (7 - num_days_from_monday(first_day)) % 7

\* show_calendar_grid: the dates of the day buttons, in the order they are
\* shown, when the picker's date is cur.
show_calendar_grid(p, cur) ==
    LET first_day_of_current_month == with_day_1(cur)
        start_offset == get_start_offset_of_calendar(p, first_day_of_current_month)
        days_in_month == get_days_from_month(year(cur), month(cur))
        first_day_of_next_month ==
            AddDuration(first_day_of_current_month, Duration_days(days_in_month))
        end_offset == get_end_offset_of_calendar(p, first_day_of_next_month)
        start_date == SubDuration(first_day_of_current_month, Duration_days(start_offset))
    IN  [i \in 1..(start_offset + days_in_month + end_offset) |->
            AddDuration(start_date, Duration_days(i - 1))]

\* show_day_button for the day d: whether the button is enabled, and the
\* picker's date after a click on it.
show_day_button(p, cur, d) ==
    LET day_beginning == day_start(d)
        day_ending == AddDuration(day_beginning, Duration_days(1))
    IN  [is_enabled |->
            /\ cur # d
            /\ \/ p.allowed_range = None
               \/ contains(p.allowed_range[1], day_beginning)
               \/ contains(p.allowed_range[1], day_ending),
         clicked |-> d]

\* show_time_editor: the clamp ranges of the hour and the minute drag values.
\* (dt.minute() - 1 is a u32 subtraction: the ranges used here keep an
\* excluded end off the full hour.)
time_clamp_ranges(p, cur) ==
    IF p.allowed_range = None
    THEN [start_hour |-> 0, start_min |-> 0, end_hour |-> 23, end_min |-> 59]
    ELSE
      LET lo == p.allowed_range[1].start_bound
          hi == p.allowed_range[1].end_bound
          day_beginning == day_start(cur)
          day_ending == AddDuration(day_beginning, Duration_days(1))
          start ==
              IF lo.kind = "Included" /\ Before(day_beginning, lo.dt)
              THEN IF hour(lo.dt) = hour(cur)
                   THEN << hour(lo.dt), minute(lo.dt) >>
                   ELSE << hour(lo.dt), 0 >>
              ELSE IF lo.kind = "Excluded" /\ NotAfter(day_beginning, lo.dt)
              THEN IF hour(lo.dt) = hour(cur)
                   THEN << hour(lo.dt), minute(lo.dt) + 1 >>
                   ELSE << hour(lo.dt), 0 >>
              ELSE << 0, 0 >>
          end ==
              IF hi.kind = "Included" /\ Before(hi.dt, day_ending)
              THEN IF hour(hi.dt) = hour(cur)
                   THEN << hour(hi.dt), minute(hi.dt) >>
                   ELSE << hour(hi.dt), 59 >>
              ELSE IF hi.kind = "Excluded" /\ NotAfter(hi.dt, day_ending)
              THEN IF hour(hi.dt) = hour(cur)
                   THEN << hour(hi.dt), minute(hi.dt) - 1 >>
                   ELSE << hour(hi.dt), 59 >>
              ELSE << 23, 59 >>
      IN  [start_hour |-> start[1], start_min |-> start[2],
           end_hour |-> end[1], end_min |-> end[2]]

\* show_time_editor: the picker's date when the drag values hold h and m.
show_time_editor(cur, h, m) ==
    AddDuration(cur, DurationSum(Duration_hours(h - hour(cur)),
                                 Duration_minutes(m - minute(cur))))

\* date_step_button: the picker's date after a click on the button.
date_step_button(p, cur, duration) ==
    LET new_date == AddDuration(cur, duration)
    IN  IF p.allowed_range = None THEN new_date
        ELSE
          LET lo == p.allowed_range[1].start_bound
              hi == p.allowed_range[1].end_bound
          IN  IF lo.kind = "Included" /\ Before(new_date, lo.dt)
              THEN lo.dt
              ELSE IF lo.kind = "Excluded" /\ NotAfter(new_date, lo.dt)
              THEN AddDuration(lo.dt, Duration_nanoseconds(1))
              ELSE IF hi.kind = "Included" /\ Before(hi.dt, new_date)
              THEN hi.dt
              ELSE IF hi.kind = "Excluded" /\ NotAfter(hi.dt, new_date)
              THEN SubDuration(hi.dt, Duration_nanoseconds(1))
              ELSE new_date

\* The identifier given to DatePicker::new.
PickerId == "super_unique_id"

\* --------------------------------------------- the date picker being built

\* The grid of a run that is about the date picker: never opened.
PickerGridOpts == {Grid(None, FALSE, vec2(30, 0), Inf, vec2(4, 2), 0)}

RangeStart == NaiveDateTime(from_ymd(2024, 1, 5), 10 * 3600 + 30 * 60, 0)

RangeEnd == NaiveDateTime(from_ymd(2024, 1, 9), 14 * 3600 + 15 * 60, 0)

\* Ranges with a date in them: closed, open, and open-ended.
PickerRanges ==
    {Range(Included(RangeStart), Included(RangeEnd)),
     Range(Excluded(RangeStart), Excluded(RangeEnd)),
     Range(Included(RangeStart), Unbounded)}

\* Dates inside every one of the ranges.
InitialDates ==
    {NaiveDateTime(from_ymd(2024, 1, 7), 8 * 3600, 0),
     NaiveDateTime(from_ymd(2024, 1, 7), 12 * 3600 + 40 * 60, 0)}

\* Values of egui::Align2.
Aligns == {"LEFT_TOP", "CENTER_CENTER", "RIGHT_BOTTOM"}

InitBuilder ==
    /\ InitGrid(PickerGridOpts, MainHosts)
    /\ picker = DatePicker_new
    /\ date \in InitialDates
    /\ popup = None
    /\ calendar = None

\* One builder call: the picker it returns, and what it was called on.
Build(op, p) ==
    /\ picker' = p
    /\ last' = [op |-> op, before |-> picker]
    /\ UNCHANGED << grid_vars, date, popup, calendar >>

SundayFirst(flag) == Build("sunday_first", sunday_first(picker, flag))

Movable(flag) == Build("movable", movable(picker, flag))

HighlightWeekend(flag) == Build("highlight_weekend", highlight_weekend(picker, flag))

RestrictRange(r) == Build("restrict_range", restrict_range(picker, r))

Placement(align) == Build("placement", placement(picker, align))

NextBuilder ==
    \/ \E flag \in BOOLEAN : SundayFirst(flag)
    \/ \E flag \in BOOLEAN : Movable(flag)
    \/ \E flag \in BOOLEAN : HighlightWeekend(flag)
    \/ \E r \in PickerRanges : RestrictRange(r)
    \/ \E align \in Aligns : Placement(align)

SpecBuilder == InitBuilder /\ [][NextBuilder]_vars

\* ---------------------------------------------- the date picker being used

\* The days after 2024-01-01 the user goes through at most.
MaxDays == 45

InWindow(dt) ==
    dt.days >= from_ymd(2024, 1, 1) /\ dt.days <= from_ymd(2024, 1, 1) + MaxDays

\* Hours and minutes the user drags to, besides the ends of the clamp range.
HourPicks == {0, 10, 14, 23}

MinutePicks == {0, 30, 59}

\* DragValue::clamp_range(lo..=hi): the values a drag may leave.
Dragged(lo, hi, picks) == {v \in picks \cup {lo, hi} : lo <= v /\ v <= hi}

\* The popup is shown for a picker with a range and a date inside it.
InitPicker ==
    /\ InitGrid(PickerGridOpts, MainHosts)
    /\ picker \in {restrict_range(sunday_first(DatePicker_new, flag), r) :
                      flag \in BOOLEAN, r \in PickerRanges}
    /\ date \in {d \in InitialDates : contains(picker.allowed_range[1], d)}
    /\ popup = Some(PickerId)
    /\ calendar = None

\* One interaction with the popup that leaves the date at dt.
Interact(op, dt) ==
    /\ InWindow(dt)
    /\ date' = dt
    /\ last' = [op |-> op]
    /\ UNCHANGED << grid_vars, picker, popup, calendar >>

\* A click on the i-th day button of the calendar.
ClickDay(i) ==
    /\ i \in DOMAIN show_calendar_grid(picker, date)
    /\ LET button == show_day_button(picker, date, show_calendar_grid(picker, date)[i])
       IN  button.is_enabled /\ Interact("show_day_button", button.clicked)

\* A click on a step button of the month control or of the year control.
ClickStep(n) == Interact("date_step_button", date_step_button(picker, date, Duration_days(n)))

\* The hour is dragged to h.
DragHour(h) == Interact("drag_hour", show_time_editor(date, h, minute(date)))

\* The minute is dragged to m.
DragMinute(m) == Interact("drag_minute", show_time_editor(date, hour(date), m))

NextPicker ==
    \/ \E i \in 1..42 : ClickDay(i)
    \/ \E n \in {-365, -30, 30, 365} : ClickStep(n)
    \/ \E h \in Dragged(time_clamp_ranges(picker, date).start_hour,
                        time_clamp_ranges(picker, date).end_hour, HourPicks) :
          DragHour(h)
    \/ \E m \in Dragged(time_clamp_ranges(picker, date).start_min,
                        time_clamp_ranges(picker, date).end_min, MinutePicks) :
          DragMinute(m)

SpecPicker == InitPicker /\ [][NextPicker]_vars

\* ------------------------------------------------- the popup of the picker

\* Memory::is_popup_open: the memory holds at most one popup open.
is_popup_open(pop, id) == pop = Some(id)

\* Memory::toggle_popup.
toggle_popup(pop, id) == IF is_popup_open(pop, id) THEN None ELSE Some(id)

\* Where the pointer was clicked in a frame, if anywhere: on the picker's
\* button, on a step button of the month control in the popup, or
\* somewhere that belongs to neither.
Pointers == {"none", "button", "prev_month", "next_month", "elsewhere"}

\* button_response.clicked().
button_clicked(pointer) == pointer = "button"

\* area_response.clicked_elsewhere(): a click that is not in the popup.
clicked_elsewhere(pointer) == pointer \in {"button", "elsewhere"}

\* The date after the header of the popup was shown.
show_header(p, cur, pointer) ==
    IF pointer = "prev_month" THEN date_step_button(p, cur, Duration_days(-30))
    ELSE IF pointer = "next_month" THEN date_step_button(p, cur, Duration_days(30))
    ELSE cur

\* A bug: the click that opens the popup counts as a click outside it.
ui_no_click_guard(p, pop, cur, pointer, escape) ==
    LET toggled == IF button_clicked(pointer) THEN toggle_popup(pop, PickerId) ELSE pop
        shown == is_popup_open(toggled, PickerId)
    IN  [popup |-> IF shown /\ (escape \/ clicked_elsewhere(pointer))
                   THEN toggle_popup(toggled, PickerId)
                   ELSE toggled,
         date |-> IF shown THEN show_header(p, cur, pointer) ELSE cur,
         shown |-> shown]

\* Widget::ui of the picker p for one frame: the popup the memory holds
\* open afterwards, the date, and whether the popup was shown.
ui(p, pop, cur, pointer, escape) ==
    LET toggled == IF button_clicked(pointer) THEN toggle_popup(pop, PickerId) ELSE pop
        shown == is_popup_open(toggled, PickerId)
    IN  [popup |-> IF shown /\ ~button_clicked(pointer)
                            /\ (escape \/ clicked_elsewhere(pointer))
                   THEN toggle_popup(toggled, PickerId)
                   ELSE toggled,
         date |-> IF shown THEN show_header(p, cur, pointer) ELSE cur,
         shown |-> shown]

InitPopup ==
    /\ InitGrid(PickerGridOpts, MainHosts)
    /\ picker \in {restrict_range(sunday_first(DatePicker_new, flag), r) :
                      flag \in BOOLEAN,
                      r \in {q \in PickerRanges : q.end_bound.kind # "Unbounded"}}
    /\ date \in InitialDates
    /\ popup = None
    /\ calendar = None

\* One frame of the picker.
Ui(pointer, escape) ==
    /\ LET after == ui(picker, popup, date, pointer, escape)
       IN  /\ popup' = after.popup
           /\ date' = after.date
           /\ last' = [op |-> "ui", pointer |-> pointer, escape |-> escape,
                       before |-> popup, shown |-> after.shown]
    /\ UNCHANGED << grid_vars, picker, calendar >>

\* Another widget toggles its own popup in the same memory.
OtherPopup ==
    /\ popup' = toggle_popup(popup, "other")
    /\ last' = [op |-> "other_popup"]
    /\ UNCHANGED << grid_vars, picker, date, calendar >>

NextPopup ==
    \/ \E pointer \in Pointers, escape \in BOOLEAN : Ui(pointer, escape)
    \/ OtherPopup

SpecPopup == InitPopup /\ [][NextPopup]_vars

\* ------------------------------------------- the calendar being laid out

\* The years the calendar is shown for, from 2023.
MaxYears == 4

\* show_grid_header: the weekdays of the labels, 0 for Monday, in order.
show_grid_header(p) ==
    IF p.sunday_first THEN << 6, 0, 1, 2, 3, 4, 5 >> ELSE << 0, 1, 2, 3, 4, 5, 6 >>

\* show_calendar_grid has shown nothing yet: no label, no day button, no
\* cell in the row, no row ended.
CalendarStart ==
    [labels |-> << >>, i |-> 0, row_ended |-> FALSE, cells |-> 0, rows |-> << >>]

InitCalendar ==
    /\ InitGrid(PickerGridOpts, MainHosts)
    /\ picker \in {sunday_first(DatePicker_new, flag) : flag \in BOOLEAN}
    /\ date \in {NaiveDateTime(from_ymd(y, m, 15), 12 * 3600, 0) :
                    y \in 2023..(2022 + MaxYears), m \in 1..12}
    /\ popup = Some(PickerId)
    /\ calendar = None

\* One step of show_calendar_grid.
Show(c) ==
    /\ calendar' = c
    /\ UNCHANGED << grid_vars, last, picker, date, popup >>

\* The grid of the calendar is opened.
ShowCalendarGrid == calendar = None /\ Show(CalendarStart)

\* show_grid_header: the next label, a cell of the row.
HeaderLabel ==
    /\ calendar # None
    /\ Len(calendar.labels) < Len(show_grid_header(picker))
    /\ Show([calendar EXCEPT
                !.labels = Append(@, show_grid_header(picker)[Len(@) + 1]),
                !.cells = @ + 1])

\* ui.end_row() before the day button i, where i is a multiple of 7.
CalendarEndRow ==
    /\ calendar # None
    /\ Len(calendar.labels) = Len(show_grid_header(picker))
    /\ calendar.i < Len(show_calendar_grid(picker, date))
    /\ calendar.i % 7 = 0
    /\ ~calendar.row_ended
    /\ Show([calendar EXCEPT
                !.rows = Append(@, calendar.cells), !.cells = 0, !.row_ended = TRUE])

\* show_day_button for the day i, not clicked: a cell of the row.
DayButton ==
    /\ calendar # None
    /\ Len(calendar.labels) = Len(show_grid_header(picker))
    /\ calendar.i < Len(show_calendar_grid(picker, date))
    /\ calendar.i % 7 = 0 => calendar.row_ended
    /\ Show([calendar EXCEPT !.i = @ + 1, !.cells = @ + 1, !.row_ended = FALSE])

NextCalendar ==
    \/ ShowCalendarGrid
    \/ HeaderLabel
    \/ CalendarEndRow
    \/ DayButton

SpecCalendar == InitCalendar /\ [][NextCalendar]_vars

\* ----------------------------------------------------------------- claims

\* The memory of the identifier: absent memory is the empty state.
Memory(st) == unwrap_or(st, DefaultState)

Closing == phase = "open" /\ phase' = "closed"

Reopening == phase = "closed" /\ phase' = "open"

\* A step of allocate_space that did not panic.
Allocating == phase = "open" /\ phase' = "open" /\ col' = col + 1

Shorter(a, b) == IF Len(a) <= Len(b) THEN Len(a) ELSE Len(b)

\* C1, as claimed: no step lowers the stored width of a column (of the
\* columns the memory holds before and after it).
C1_WidthMemoryNeverDrops ==
    [][\A c \in 1..Shorter(Memory(store).col_widths, Memory(store').col_widths) :
          Memory(store').col_widths[c] >= Memory(store).col_widths[c]]_vars

\* C1, amended: after every close() the memory holds exactly the columns
\* measured in that frame, each with the largest width measured in it this
\* frame, raised to min_cell_size.x: the stored width follows the last frame.
C1_StoredWidthIsFrameMax ==
    [][Closing =>
          /\ Len(Memory(store').col_widths) = Len(meas.w)
          /\ \A c \in 1..Len(meas.w) :
                Memory(store').col_widths[c] = FMax(meas.w[c], min_cell_size.x)]_vars

\* C1 witness: a close() has lowered the stored width of column 0 below the
\* width that was loaded at open.
C1_Witness ==
    /\ phase = "closed"
    /\ last.wrote
    /\ Len(prev_state.col_widths) >= 1
    /\ Len(Memory(store).col_widths) >= 1
    /\ Memory(store).col_widths[1] < prev_state.col_widths[1]

\* C2: a close() that finds the accumulator equal to the memory loaded at
\* open writes nothing to the store, which still holds what was loaded at
\* open, and requests no repaint.
C2_IdempotentCommit ==
    (phase = "closed" /\ curr_state = prev_state) =>
        /\ store = (IF is_first_frame THEN None ELSE Some(prev_state))
        /\ ~last.wrote
        /\ ~last.repaint

\* C2 witness: a frame that measured cells was closed without a write.
C2_Witness ==
    /\ phase = "closed"
    /\ curr_state = prev_state
    /\ curr_state # DefaultState
    /\ ~last.wrote
    /\ ~last.repaint

\* C3: a close() that finds the accumulator different from the memory
\* loaded at open stores exactly the accumulator and requests a repaint, and
\* the next open loads exactly that accumulator.
C3_CommitOnDifference ==
    [][/\ Closing /\ curr_state # prev_state =>
            /\ store' = Some(curr_state)
            /\ last'.wrote
            /\ last'.repaint
       /\ Reopening /\ curr_state # prev_state =>
            /\ prev_state' = curr_state
            /\ ~is_first_frame']_vars

\* C3 witness: a frame opened on the accumulator that the frame before it
\* committed over an older memory.
C3_Witness ==
    /\ phase = "closed"
    /\ curr_state # prev_state
    /\ prev_state # DefaultState
    /\ curr_state # DefaultState
    /\ store = Some(curr_state)
    /\ last.repaint

\* The rows of meas in which a cell was measured.
MeasuredRows == {r \in 1..Len(meas.h) : meas.h[r] # -1}

\* C5: a first frame that measured at least one cell, with every column's
\* and row's largest measured size at least min_cell_size, requests a
\* repaint at close() and leaves in memory the largest width measured in
\* each column and the largest height measured in each row.
C5_ColdStartCommit ==
    ( /\ phase = "closed"
      /\ is_first_frame
      /\ meas.w # << >>
      /\ \A c \in 1..Len(meas.w) : meas.w[c] >= min_cell_size.x
      /\ \A r \in MeasuredRows : meas.h[r] >= min_cell_size.y )
    => /\ last.repaint
       /\ store # None
       /\ Len(Memory(store).col_widths) = Len(meas.w)
       /\ \A c \in 1..Len(meas.w) : Memory(store).col_widths[c] = meas.w[c]
       /\ \A r \in MeasuredRows : Memory(store).row_heights[r] = meas.h[r]

\* C5 witness: the first frame measured 40x30 and 60x20 in row 0 with no
\* minimum cell size and left widths 40, 60 and height 30.
C5_Witness ==
    /\ phase = "closed"
    /\ is_first_frame
    /\ min_cell_size = vec2(0, 0)
    /\ last.repaint
    /\ store = Some([col_widths |-> << 40, 60 >>, row_heights |-> << 30 >>])

\* C6, as claimed: the rectangle of next_cell starts at the cursor and its
\* size is the larger of the child's size and the previous frame's width of
\* the column and height of the row (prev_col_width, prev_row_height).
C6_NextCellIsMaxOfPrev ==
    [][Allocating =>
          last'.frame_rect =
              from_min_size(cursor,
                            vec2_max(last'.desired_size,
                                     vec2(prev_col_width(col),
                                          prev_row_height(row))))]_vars

\* C6, amended: the rectangle of next_cell starts at the cursor and its size
\* is the larger of the child's size and (the memory's width of the column,
\* or 0 where the memory has none; the memory's height of the row, or
\* min_cell_size.y where the memory has none).
C6_NextCellIsMaxOfMemory ==
    [][Allocating =>
          last'.frame_rect =
              from_min_size(cursor,
                            vec2_max(last'.desired_size,
                                     vec2(unwrap_or(col_width(prev_state, col), 0),
                                          unwrap_or(row_height(prev_state, row),
                                                    min_cell_size.y))))]_vars

\* C6 witness: on a frame with memory a cell got a rectangle wider than its
\* content asked for.
C6_Witness ==
    /\ phase = "open"
    /\ ~is_first_frame
    /\ last.op = "allocate_space"
    /\ width(last.frame_rect) > last.desired_size.x

\* C9, as claimed: with no memory every rectangle handed out, by
\* available_rect and by next_cell, is at least min_cell_size in both
\* directions.
C9_ColdStartAtLeastMin ==
    (phase = "open" /\ is_first_frame) =>
        /\ width(available_rect) >= min_cell_size.x
        /\ height(available_rect) >= min_cell_size.y
        /\ last.op = "allocate_space" =>
              /\ width(last.frame_rect) >= min_cell_size.x
              /\ height(last.frame_rect) >= min_cell_size.y

\* C9, amended: with no memory the rectangle of available_rect is at least
\* min_cell_size in both directions; the rectangle of next_cell is at least
\* min_cell_size.y high, and exactly as wide as the child asked for.
C9_ColdStartMinimums ==
    (phase = "open" /\ is_first_frame) =>
        /\ width(available_rect) >= min_cell_size.x
        /\ height(available_rect) >= min_cell_size.y
        /\ last.op = "allocate_space" =>
              /\ width(last.frame_rect) = last.desired_size.x
              /\ height(last.frame_rect) >= min_cell_size.y

\* C9 witness: on a first frame the space left below the cursor is less
\* than min_cell_size.y and a cell narrower than min_cell_size.x was placed.
C9_Witness ==
    /\ phase = "open"
    /\ is_first_frame
    /\ last.op = "allocate_space"
    /\ last.desired_size.x < min_cell_size.x
    /\ initial_available.max.y - cursor.y < min_cell_size.y
    /\ height(available_rect) = min_cell_size.y

\* The largest number of a non-empty finite set.
Largest(S) == CHOOSE m \in S : \A x \in S : x <= m

\* The sizes a grid of the same content settles on: the widest content of
\* column c and the highest content of row r, raised to min_cell_size.
StableWidth(c) ==
    FMax(Largest({content(r, c).x :
                     r \in opts.start_row..(opts.start_row + host.max_rows - 1)}),
         min_cell_size.x)

StableHeight(r) ==
    FMax(Largest({content(r, c).y : c \in 0..(host.max_cols - 1)}),
         min_cell_size.y)

\* C4: over the same content every frame, starting without memory, from the
\* second frame on every cell's rectangle has the stable width of its column
\* and the stable height of its row, close() requests no repaint and writes
\* nothing, and the memory holds the stable sizes.
C4_Convergence ==
    frame_no >= 2 =>
        /\ (phase = "open" /\ last.op = "allocate_space") =>
              /\ width(last.frame_rect) = StableWidth(col - 1)
              /\ height(last.frame_rect) = StableHeight(row)
        /\ phase = "closed" =>
              /\ ~last.repaint
              /\ ~last.wrote
        /\ \A c \in 0..(host.max_cols - 1) :
              col_width(Memory(store), c) = Some(StableWidth(c))
        /\ \A r \in opts.start_row..(opts.start_row + host.max_rows - 1) :
              row_height(Memory(store), r) = Some(StableHeight(r))

\* C4 witness: the second frame closed without a repaint over a content
\* whose column 0 is wider in one row than in the other.
C4_Witness ==
    /\ frame_no = 2
    /\ phase = "closed"
    /\ ~last.repaint
    /\ content(opts.start_row, 0).x # content(opts.start_row + 1, 0).x
    /\ curr_state # DefaultState

\* C7, as claimed: with striping enabled end_row paints a stripe behind the
\* coming row exactly when the index of that row is odd.
C7_StripeExactlyOddRows ==
    (phase = "open" /\ last.op = "end_row" /\ striped) =>
        (last.stripe # None <=> row % 2 = 1)

\* C7, amended: end_row paints a stripe behind the coming row exactly when
\* striping is enabled, the index of that row (counted from start_row) is
\* odd and the memory of the previous frame holds a height for that row: an
\* even row is never striped, and an odd row only when the memory knows it.
C7_StripeOddRowsInMemory ==
    (phase = "open" /\ last.op = "end_row") =>
        /\ last.stripe # None <=>
              (striped /\ row % 2 = 1 /\ row_height(prev_state, row) # None)
        /\ last.stripe # None => last.stripe[1].row = row

\* C7 witness: with start_row = 5 the stripe goes behind row 7, the third
\* row of the traversal.
C7_Witness ==
    /\ phase = "open"
    /\ opts.start_row = 5
    /\ last.op = "end_row"
    /\ last.stripe # None
    /\ row = 7

\* Where advance has put the cursor's left edge at column c: it has moved
\* by the previous frame's width plus spacing.x for every earlier column.
RECURSIVE LeftOf(_)
LeftOf(c) ==
    IF c = 0 THEN initial_available.min.x
    ELSE LeftOf(c - 1) + prev_col_width(c - 1) + spacing.x

\* C8, as claimed: on a frame with memory the width offered to the last
\* column is what is left of the available width from the cursor, at most
\* max_cell_size.x.
C8_LastColumnFill ==
    (phase = "open" /\ ~is_first_frame /\ Some(col + 1) = num_columns) =>
        /\ cursor.x = LeftOf(col)
        /\ width(available_rect) =
              FMin(initial_available.max.x - LeftOf(col), max_cell_size.x)

\* C8, amended: on a frame with memory the width offered to the last
\* column is what is left of the available width from the cursor, at most
\* max_cell_size.x, and no less than the width this frame has accumulated
\* for that column already.
C8_LastColumnFillFloored ==
    (phase = "open" /\ ~is_first_frame /\ Some(col + 1) = num_columns) =>
        /\ cursor.x = LeftOf(col)
        /\ width(available_rect) =
              FMax(FMin(initial_available.max.x - LeftOf(col), max_cell_size.x),
                   unwrap_or(col_width(curr_state, col), 0))

\* C8 witness: 3 columns in a width of 300, the first two 50 wide in the
\* previous frame, spacing 4, no maximum: the third is offered 192.
C8_Witness ==
    /\ phase = "open"
    /\ ~is_first_frame
    /\ num_columns = Some(3)
    /\ col = 2
    /\ max_cell_size.x = Inf
    /\ spacing.x = 4
    /\ initial_available.max.x - initial_available.min.x = 300
    /\ col_width(prev_state, 0) = Some(50)
    /\ col_width(prev_state, 1) = Some(50)
    /\ width(available_rect) = 192

\* C10, as claimed: a grid with negative spacing is not processed: no cell
\* operation completes and nothing is committed.
C10_NegativeSpacingIsFatal ==
    (is_finite(spacing.x) /\ spacing.x < 0) =>
        /\ last.op # "allocate_space"
        /\ store = None

\* C10, amended: negative spacing is processed like any other: the cell
\* operations complete, each moving the cursor by the previous width plus
\* spacing.x, and close() commits the accumulator.  The one fatal failure
\* is the assertion that a cell's rectangle holds no NaN, in a build that
\* checks it; the traversal it stops commits nothing.
C10_OnlyNaNIsFatal ==
    /\ phase = "panicked" =>
          /\ host.extra_asserts
          /\ ~is_finite(spacing.x)
          /\ store = IF is_first_frame THEN None ELSE Some(prev_state)
    /\ (is_finite(spacing.x) /\ phase = "open") => cursor.x = LeftOf(col)
    /\ (is_finite(spacing.x) /\ phase = "closed" /\ curr_state # prev_state) =>
          store = Some(curr_state)

\* C10 witness: with negative spacing the cursor went left of the grid's
\* rectangle and the traversal was committed.
C10_Witness ==
    /\ is_finite(spacing.x)
    /\ spacing.x < 0
    /\ phase = "closed"
    /\ cursor.x < initial_available.min.x
    /\ last.wrote
    /\ store = Some(curr_state)
    /\ curr_state # DefaultState

\* C11, as claimed: with a range set and the date inside it at first, the
\* date is inside the range after any clicks on enabled day buttons and on
\* step buttons and any drags of the hour and the minute.
C11_DateStaysInRange == contains(picker.allowed_range[1], date)

\* C12: after any builder calls from DatePicker::new the picker is never
\* movable and placed at once.
C12_PlacedOrMovable == ~(picker.movable /\ picker.placement # None)

\* C12 witness: placement was called on a movable picker, which is placed
\* and no longer movable.
C12_Witness ==
    /\ last.op = "placement"
    /\ last.before.movable
    /\ picker.placement # None
    /\ ~picker.movable

\* The width accumulated this frame for column c, from the sizes measured:
\* None if no cell of the column was measured.
Accumulated(c) ==
    IF c < Len(meas.w) /\ meas.w[c + 1] >= 0
    THEN Some(FMax(meas.w[c + 1], min_cell_size.x))
    ELSE None

\* The cell at the cursor is in a column that is not the last one.
NonLastColumn == phase = "open" /\ Some(col + 1) # num_columns

LastColumn == phase = "open" /\ Some(col + 1) = num_columns

\* C13: for a column that is not the last, with no finite max_cell_size.x,
\* the width available_rect computes is the memory's width of the column if
\* the memory has one, else the width accumulated this frame for the column
\* if a cell of it was measured, else min_cell_size.x.
C13_ThreeTierFallback ==
    (NonLastColumn /\ ~is_finite(max_cell_size.x)) =>
        available_width =
            IF col < Len(Memory(store).col_widths)
            THEN Memory(store).col_widths[col + 1]
            ELSE IF Accumulated(col) # None
            THEN Accumulated(col)[1]
            ELSE min_cell_size.x

\* C13 witness: the memory has the column, with a width other than the one
\* accumulated this frame, and the memory's width is the one computed.
C13_Witness ==
    /\ NonLastColumn
    /\ ~is_finite(max_cell_size.x)
    /\ col < Len(Memory(store).col_widths)
    /\ Accumulated(col) # None
    /\ Accumulated(col)[1] > Memory(store).col_widths[col + 1]
    /\ available_width = Memory(store).col_widths[col + 1]

\* C14: on a frame without memory the width available_rect computes for the
\* last column is the width accumulated this frame for the column
\* (min_cell_size.x while no cell of it was measured), whatever space
\* remains; on a frame with memory it is the space that remains to the right
\* edge, at most max_cell_size.x.
C14_LastColumnFirstFrame ==
    LastColumn =>
        available_width =
            IF store = None
            THEN unwrap_or(Accumulated(col), min_cell_size.x)
            ELSE FMin(FSub(initial_available.max.x, cursor.x), max_cell_size.x)

\* C14 witness: on a frame without memory the last column has an accumulated
\* width, which is the width computed and is not the space that remains.
C14_Witness ==
    /\ LastColumn
    /\ store = None
    /\ Accumulated(col) # None
    /\ available_width = Accumulated(col)[1]
    /\ available_width # FMin(FSub(initial_available.max.x, cursor.x), max_cell_size.x)

\* C15: for a column that is not the last, with a finite max_cell_size.x,
\* the width of the rectangle available_rect returns is the larger of
\* max_cell_size.x and the width accumulated this frame for the column: the
\* memory has no part in it.
C15_FiniteMaxIgnoresMemory ==
    (NonLastColumn /\ is_finite(max_cell_size.x)) =>
        width(available_rect) = FMax(max_cell_size.x, unwrap_or(Accumulated(col), 0))

\* C15 witness: the memory has a width for the column, other than the width
\* returned, which is max_cell_size.x.
C15_Witness ==
    /\ NonLastColumn
    /\ is_finite(max_cell_size.x)
    /\ col < Len(Memory(store).col_widths)
    /\ Memory(store).col_widths[col + 1] # width(available_rect)
    /\ width(available_rect) = max_cell_size.x

\* C16: the rectangle available_rect returns is at least as wide as the
\* width accumulated this frame for the column at the cursor.
C16_WidthFloor ==
    (phase = "open" /\ Accumulated(col) # None) =>
        width(available_rect) >= Accumulated(col)[1]

\* C16 witness: in the last column, on a frame with memory, less space
\* remains than was accumulated, and the accumulated width is returned.
C16_Witness ==
    /\ LastColumn
    /\ ~is_first_frame
    /\ Accumulated(col) # None
    /\ FSub(initial_available.max.x, cursor.x) < Accumulated(col)[1]
    /\ width(available_rect) = Accumulated(col)[1]

\* The slot i of a sequence, 0 where the sequence has no such slot.
SlotOr0(seq, i) == IF i <= Len(seq) THEN seq[i] ELSE 0

\* after is before, widened with zeros to hold the slot i, with v in it.
MergedAt(before, after, i, v) ==
    /\ Len(after) = AtLeastLen(before, i)
    /\ after[i] = v
    /\ \A k \in 1..Len(after) : k # i => after[k] = SlotOr0(before, k)

\* A step of allocate_space that reached advance.
Advancing == phase = "open" /\ last'.op = "allocate_space"

\* C17, as claimed: advance for a cell at (col, row) measured as (w, h)
\* widens the sequences with zeros to hold col and row, sets the slot col
\* to max(old, w) and the slot row to max(old, h), and changes no other slot.
C17_AdvanceIsMaxMerge ==
    [][Advancing =>
          /\ MergedAt(curr_state.col_widths, curr_state'.col_widths, col + 1,
                      FMax(SlotOr0(curr_state.col_widths, col + 1),
                           width(last'.widget_rect)))
          /\ MergedAt(curr_state.row_heights, curr_state'.row_heights, row + 1,
                      FMax(SlotOr0(curr_state.row_heights, row + 1),
                           height(last'.widget_rect)))]_vars

\* C17, amended: the slot col becomes max(old, w, min_cell_size.x) and the
\* slot row max(old, h, min_cell_size.y); the sequences are widened with
\* zeros and no other slot changes.
C17_AdvanceMergesWithMinimum ==
    [][Advancing =>
          /\ MergedAt(curr_state.col_widths, curr_state'.col_widths, col + 1,
                      FMax(SlotOr0(curr_state.col_widths, col + 1),
                           FMax(width(last'.widget_rect), min_cell_size.x)))
          /\ MergedAt(curr_state.row_heights, curr_state'.row_heights, row + 1,
                      FMax(SlotOr0(curr_state.row_heights, row + 1),
                           FMax(height(last'.widget_rect), min_cell_size.y)))]_vars

\* C17 witness: a cell narrower than min_cell_size.x was measured and its
\* column's slot holds min_cell_size.x.
C17_Witness ==
    /\ phase = "open"
    /\ last.op = "allocate_space"
    /\ width(last.widget_rect) < min_cell_size.x
    /\ curr_state.col_widths[col] = min_cell_size.x

\* b has every slot of a, with a value at least as large.
GrowsTo(a, b) == Len(a) <= Len(b) /\ \A k \in 1..Len(a) : a[k] <= b[k]

\* C18: between open and close no step shortens col_widths or row_heights
\* or lowers a slot of them.
C18_AccumulatorOnlyGrows ==
    [][(phase = "open" /\ phase' = "open") =>
          /\ GrowsTo(curr_state.col_widths, curr_state'.col_widths)
          /\ GrowsTo(curr_state.row_heights, curr_state'.row_heights)]_vars

\* C18 witness: a cell narrower than its column's slot was measured, in a
\* later row, and the slot kept its width.
C18_Witness ==
    /\ phase = "open"
    /\ last.op = "allocate_space"
    /\ row > opts.start_row
    /\ width(last.widget_rect) < curr_state.col_widths[col]
    /\ min_cell_size.x < curr_state.col_widths[col]

\* C19: advance moves the left edge of the cursor by the memory's width of
\* the column (min_cell_size.x if the memory has none) plus spacing.x,
\* whatever was measured, and the column index by 1.
C19_AdvanceMovesByMemory ==
    [][Advancing =>
          /\ cursor'.x = cursor.x + spacing.x
                + (IF col < Len(Memory(store).col_widths)
                   THEN Memory(store).col_widths[col + 1]
                   ELSE min_cell_size.x)
          /\ cursor'.y = cursor.y
          /\ col' = col + 1]_vars

\* C19 witness: on a frame with memory a cell was measured with another
\* width than the memory has for its column, and the cursor is where the
\* memory's widths put it.
C19_Witness ==
    /\ phase = "open"
    /\ last.op = "allocate_space"
    /\ col - 1 < Len(Memory(store).col_widths)
    /\ width(last.widget_rect) # Memory(store).col_widths[col]
    /\ cursor.x = LeftOf(col)

\* The height accumulated this frame for row r, from the sizes measured:
\* None if no cell of the row was measured.
AccumulatedHeight(r) ==
    IF r < Len(meas.h) /\ meas.h[r + 1] >= 0
    THEN Some(FMax(meas.h[r + 1], min_cell_size.y))
    ELSE None

\* A step of end_row.
EndingRow == phase = "open" /\ last'.op = "end_row"

\* C20: end_row sets the column index to 0 and the left edge of the cursor
\* to the left edge of the rectangle the grid was opened in, moves the top
\* of the cursor down by spacing.y plus the height accumulated this frame
\* for the row (min_cell_size.y if no cell of it was measured), and adds 1
\* to the row index.
C20_EndRowUsesFrameHeight ==
    [][EndingRow =>
          /\ col' = 0
          /\ cursor'.x = initial_available.min.x
          /\ cursor'.y = cursor.y + spacing.y
                + unwrap_or(AccumulatedHeight(row), min_cell_size.y)
          /\ row' = row + 1]_vars

\* C20 witness: the first row was ended after a cell higher than the
\* memory's height of the row, and the cursor is below that height.
C20_Witness ==
    /\ phase = "open"
    /\ last.op = "end_row"
    /\ row = opts.start_row + 1
    /\ col = 0
    /\ AccumulatedHeight(row - 1) # None
    /\ AccumulatedHeight(row - 1)[1] # prev_row_height(row - 1)
    /\ cursor = vec2(initial_available.min.x,
                     initial_available.min.y + spacing.y + AccumulatedHeight(row - 1)[1])

\* C21: only close() changes the stored memory; the previous-frame snapshot
\* changes only when a frame is opened, and is then the stored memory, also
\* after a traversal that was abandoned.  (available_rect and next_cell are
\* computed from the state and assign nothing.)
C21_OnlyCloseChangesMemory ==
    [][/\ store' # store => Closing
       /\ prev_state' # prev_state => last'.op = "open"
       /\ last'.op = "open" => prev_state' = Memory(store) /\ store' = store
       /\ last'.op = "abandon" => store' = store]_vars

\* C21 witness: a traversal that had accumulated something else than the
\* committed memory was abandoned, and the memory is as it was loaded.
C21_Witness ==
    /\ phase = "idle"
    /\ last.op = "abandon"
    /\ store # None
    /\ store = Some(prev_state)
    /\ curr_state # DefaultState
    /\ curr_state # prev_state

\* Every slot of the state is at least 0, and 0 in the rows before
\* start_row, which no cell is measured in.
NonNegative(st) ==
    /\ \A c \in 1..Len(st.col_widths) : st.col_widths[c] >= 0
    /\ \A r \in 1..Len(st.row_heights) :
          /\ st.row_heights[r] >= 0
          /\ r <= opts.start_row => st.row_heights[r] = 0

\* C22: every slot of col_widths and row_heights, of the accumulator and of
\* the stored memory, is at least 0, whatever min_cell_size and the sizes
\* measured, and a slot that exists only because a higher index was written
\* holds 0.
C22_SlotsNeverNegative == NonNegative(curr_state) /\ NonNegative(Memory(store))

\* C22 witness: with a negative min_cell_size and start_row = 3 an empty
\* cell was measured and committed: its slots hold 0, as do the rows before.
C22_Witness ==
    /\ phase = "closed"
    /\ min_cell_size.x < 0
    /\ opts.start_row = 3
    /\ Memory(store).col_widths = << 0 >>
    /\ Memory(store).row_heights = << 0, 0, 0, 0 >>

\* The sum of the widths the memory holds.
RECURSIVE WidthSum(_)
WidthSum(seq) == IF seq = << >> THEN 0 ELSE seq[1] + WidthSum(Tail(seq))

\* C23: end_row paints a stripe only if striping is enabled, the index of
\* the coming row is odd and the memory holds a height for that row, so
\* never on a traversal without memory; the stripe painted starts at the new
\* cursor with the memory's full width (the sum of its column widths plus
\* spacing.x between them) and the memory's height of the row, and is grown
\* by 2 to the left and to the right and by half of spacing.y up and down.
C23_StripeNeedsMemory ==
    (phase = "open" /\ last.op = "end_row" /\ last.stripe # None) =>
        /\ striped
        /\ row % 2 = 1
        /\ store # None
        /\ row < Len(Memory(store).row_heights)
        /\ LET columns == Len(Memory(store).col_widths)
               full == WidthSum(Memory(store).col_widths) + (columns - 1) * spacing.x
               high == Memory(store).row_heights[row + 1]
               rect == last.stripe[1].rect
           IN  /\ columns >= 1
               /\ rect.min = vec2(cursor.x - 2, cursor.y - spacing.y \div 2)
               /\ width(rect) = full + 4
               /\ height(rect) = high + spacing.y

\* C23 witness: a stripe was painted from a memory of two columns.
C23_Witness ==
    /\ phase = "open"
    /\ last.op = "end_row"
    /\ last.stripe # None
    /\ Len(Memory(store).col_widths) = 2

\* C24: in a frame with a click on the picker's button the popup is open
\* afterwards exactly if it was not open before; in a frame without such a
\* click an open popup is closed by Escape or by a click outside it, and
\* otherwise the popup is open afterwards exactly if it was before.
C24_PopupToggling ==
    last.op = "ui" =>
        LET was == is_popup_open(last.before, PickerId)
            now == is_popup_open(popup, PickerId)
        IN  IF last.pointer = "button" THEN now = ~was
            ELSE IF was /\ (last.escape \/ last.pointer = "elsewhere") THEN ~now
            ELSE now = was

\* C24 witness: a click on the button opened the popup, with Escape pressed
\* in the same frame, and the popup is open.
C24_Witness ==
    /\ last.op = "ui"
    /\ last.pointer = "button"
    /\ last.escape
    /\ ~is_popup_open(last.before, PickerId)
    /\ last.shown
    /\ is_popup_open(popup, PickerId)

\* show_calendar_grid has shown its last day button.
CalendarShown ==
    /\ calendar # None
    /\ Len(calendar.labels) = 7
    /\ calendar.i = Len(show_calendar_grid(picker, date))

\* C25: for every year and month and both settings of sunday_first the
\* number of day buttons is a multiple of 7, covering the month; the 7
\* header labels make up the first row, every row ended by end_row has
\* exactly 7 cells, and so has the last row when the grid is shown.
C25_WholeWeeks ==
    /\ Len(show_calendar_grid(picker, date)) % 7 = 0
    /\ Len(show_calendar_grid(picker, date)) >= get_days_from_month(year(date), month(date))
    /\ calendar # None =>
          /\ Len(calendar.labels) <= 7
          /\ calendar.cells <= 7
          /\ \A r \in 1..Len(calendar.rows) : calendar.rows[r] = 7
          /\ calendar.i > 0 => calendar.labels = show_grid_header(picker)
    /\ CalendarShown => calendar.cells = 7

\* C25 witness: with Sunday first a month of six weeks was shown: the
\* header and five rows of days were ended, the sixth row has 7 cells.
C25_Witness ==
    /\ CalendarShown
    /\ picker.sunday_first
    /\ Len(calendar.rows) = 6
    /\ calendar.cells = 7
    /\ calendar.i = 42

====
